---------------------------- MODULE Spec2Model ----------------------------
(***************************************************************************)
(* Alerta Alergia: the application controller (App), the analysis client   *)
(* (analyzeProductImage), the profile store (localStorage effects) and the *)
(* Scanner component, as one state machine.                                *)
(*                                                                         *)
(* A text is a sequence of one-character strings.  A JSON text is a        *)
(* sequence of tokens.  React state is the committed state: every action   *)
(* is one event handler or one promise continuation run to completion,     *)
(* together with the render and the effects it causes.  The Scanner is the *)
(* component with the fallback camera request and handleStreamSuccess.     *)
(***************************************************************************)
EXTENDS Integers, Sequences, FiniteSets, TLC

(***************************************************************************)
(* Bounds of the model.                                                    *)
(***************************************************************************)
MaxCaptures == 2     \* handleCapture invocations in one run
MaxMounts == 2       \* Scanner mounts in one run
MaxReads == 1        \* file reads in flight at once
MaxLen == 3          \* length of a typed text (pure-function checks)
MaxItemLen == 1      \* length of a list entry (pure-function checks)
MaxList == 2         \* length of an allergen list (pure-function checks)

(***************************************************************************)
(* Texts.                                                                  *)
(***************************************************************************)
Chars == {" ", "a", "A"}

RECURSIVE TextsOfLen(_)
TextsOfLen(n) ==
    IF n = 0 THEN {<<>>}
    ELSE {Append(t, c) : t \in TextsOfLen(n - 1), c \in Chars}

TextsUpTo(n) == UNION {TextsOfLen(k) : k \in 0..n}

RECURSIVE ListsOfLen(_, _)
ListsOfLen(S, n) ==
    IF n = 0 THEN {<<>>}
    ELSE {Append(L, x) : L \in ListsOfLen(S, n - 1), x \in S}

ListsUpTo(S, n) == UNION {ListsOfLen(S, k) : k \in 0..n}

Range(s) == {s[i] : i \in 1..Len(s)}

IsWhite(c) == c = " "

RECURSIVE TrimStart(_)
TrimStart(s) ==
    IF s # <<>> /\ IsWhite(Head(s)) THEN TrimStart(Tail(s)) ELSE s

RECURSIVE TrimEnd(_)
TrimEnd(s) ==
    IF s # <<>> /\ IsWhite(s[Len(s)]) THEN TrimEnd(SubSeq(s, 1, Len(s) - 1)) ELSE s

\* String.prototype.trim
Trim(s) == TrimEnd(TrimStart(s))

\* Array.prototype.includes on an array of strings
Includes(L, x) == \E i \in 1..Len(L) : L[i] = x

\* Array.prototype.filter(a => a !== item)
RECURSIVE FilterOut(_, _)
FilterOut(L, item) ==
    IF L = <<>> THEN <<>>
    ELSE IF Head(L) # item THEN <<Head(L)>> \o FilterOut(Tail(L), item)
    ELSE FilterOut(Tail(L), item)

(***************************************************************************)
(* JSON values held in the allergens state and JSON texts held in          *)
(* localStorage.  A value is a list of strings, null, or a scalar/object   *)
(* that is not an array ("num": 5, {} and the like behave alike here).     *)
(***************************************************************************)
ListVal(L) == [t |-> "list", v |-> L]
NullVal == [t |-> "null", v |-> <<>>]
NumVal == [t |-> "num", v |-> <<>>]

IsList(x) == x.t = "list"

LB == [k |-> "lb", s |-> <<>>]
RB == [k |-> "rb", s |-> <<>>]
COMMA == [k |-> "comma", s |-> <<>>]
NUL == [k |-> "null", s |-> <<>>]
NUM == [k |-> "num", s |-> <<>>]
STR(x) == [k |-> "str", s |-> x]

RECURSIVE JoinItems(_)
JoinItems(L) ==
    IF L = <<>> THEN <<>>
    ELSE IF Len(L) = 1 THEN <<STR(L[1])>>
    ELSE <<STR(L[1]), COMMA>> \o JoinItems(Tail(L))

\* JSON.stringify
Stringify(x) ==
    IF x.t = "list" THEN <<LB>> \o JoinItems(x.v) \o <<RB>>
    ELSE IF x.t = "null" THEN <<NUL>>
    ELSE <<NUM>>

ParseError == [ok |-> FALSE, val |-> NullVal]
Parsed(x) == [ok |-> TRUE, val |-> x]

\* the items of  str (comma str)*  , or a failure
RECURSIVE ParseItems(_)
ParseItems(toks) ==
    IF toks = <<>> \/ Head(toks).k # "str" THEN [ok |-> FALSE, items |-> <<>>]
    ELSE IF Len(toks) = 1 THEN [ok |-> TRUE, items |-> <<toks[1].s>>]
    ELSE IF toks[2].k # "comma" THEN [ok |-> FALSE, items |-> <<>>]
    ELSE LET rest == ParseItems(SubSeq(toks, 3, Len(toks)))
         IN  IF rest.ok THEN [ok |-> TRUE, items |-> <<toks[1].s>> \o rest.items]
             ELSE rest

\* JSON.parse on the token texts of this model (flat arrays of strings,
\* null, a number); anything else is a SyntaxError
Parse(toks) ==
    IF toks = <<NUL>> THEN Parsed(NullVal)
    ELSE IF toks = <<NUM>> THEN Parsed(NumVal)
    ELSE IF Len(toks) >= 2 /\ toks[1] = LB /\ toks[Len(toks)] = RB
    THEN IF Len(toks) = 2 THEN Parsed(ListVal(<<>>))
         ELSE LET r == ParseItems(SubSeq(toks, 2, Len(toks) - 1))
              IN  IF r.ok THEN Parsed(ListVal(r.items)) ELSE ParseError
    ELSE ParseError

\* localStorage.getItem: null when the key is absent, else the stored text
NoItem == [present |-> FALSE, text |-> <<>>]
Item(text) == [present |-> TRUE, text |-> text]

\* truthiness of what getItem returned
Truthy(item) == item.present /\ item.text # <<>>

(***************************************************************************)
(* The analysis client: analyzeProductImage.                               *)
(***************************************************************************)
MsgNoAllergens == "Nenhum alergeno configurado."
MsgAnalysis == "Nao foi possivel analisar a imagem. Tente novamente com uma foto mais nitida."
MsgTypeError == "TypeError"
NoMsg == "<null>"

RiskLevels == {"SAFE", "WARNING", "DANGER"}

\* what JSON.parse yields for a response text: null, or an object in which
\* each of the three fields is there or not
NullPayload ==
    [isNull |-> TRUE, riskLevel |-> "missing", hasDetected |-> FALSE, hasReasoning |-> FALSE]
ObjPayload(r, d, x) ==
    [isNull |-> FALSE, riskLevel |-> r, hasDetected |-> d, hasReasoning |-> x]
Payloads ==
    {NullPayload} \cup
    {ObjPayload(r, d, x) : r \in RiskLevels \cup {"missing"}, d \in BOOLEAN, x \in BOOLEAN}

\* the AnalysisResult interface: all three fields, riskLevel in the enum
IsAnalysisResult(p) ==
    ~p.isNull /\ p.riskLevel \in RiskLevels /\ p.hasDetected /\ p.hasReasoning

\* what the remote call does: it throws, or it answers with no text, with a
\* text that is no JSON, or with a JSON text
Response(kind, p) == [kind |-> kind, val |-> p]
Responses ==
    {Response(k, NullPayload) : k \in {"throws", "notext", "garbage"}}
    \cup {Response("json", p) : p \in Payloads}

\* the answers drawn when the whole application runs
AppResponses ==
    {Response(k, NullPayload) : k \in {"throws", "notext", "garbage"}}
    \cup {Response("json", p) : p \in
            {NullPayload, ObjPayload("missing", FALSE, FALSE),
             ObjPayload("SAFE", TRUE, TRUE), ObjPayload("DANGER", TRUE, TRUE)}}

\* the promise of analyzeProductImage, settled
Fulfilled(p) == [settled |-> "fulfilled", value |-> p, message |-> NoMsg]
Rejected(m) == [settled |-> "rejected", value |-> NullPayload, message |-> m]

\* AnalyzeEntry without the check of the empty list
AnalyzeEntry_NoValidation(userAllergens) ==
    IF ~IsList(userAllergens) THEN "type" ELSE "call"

\* lines 11-34: the part of analyzeProductImage before the remote call.
\* "validation": the empty list; "type": length/join on something that is
\* no array; "call": the remote call is issued
AnalyzeEntry(userAllergens) ==
    IF IsList(userAllergens) /\ Len(userAllergens.v) = 0 THEN "validation"
    ELSE IF ~IsList(userAllergens) THEN "type"
    ELSE "call"

\* lines 36-84: the part after the remote call has answered
AnalyzeAfterCall(resp) ==
    IF resp.kind = "throws" THEN Rejected(MsgAnalysis)
    ELSE IF resp.kind = "notext" THEN Rejected(MsgAnalysis)
    ELSE IF resp.kind = "garbage" THEN Rejected(MsgAnalysis)
    ELSE Fulfilled(resp.val)

\* how the promise of a started request settles
Settle(req, resp) ==
    IF req.entry = "validation" THEN Rejected(MsgNoAllergens)
    ELSE IF req.entry = "type" THEN Rejected(MsgTypeError)
    ELSE AnalyzeAfterCall(resp)

\* a started call: its image, its userAllergens argument, how far the entry
\* part got, and the remote-call count before and after the invocation
Request(id, img, arg, before) ==
    [id |-> id, img |-> img, arg |-> arg, entry |-> AnalyzeEntry(arg),
     callsBefore |-> before,
     callsAfter |-> IF AnalyzeEntry(arg) = "call" THEN before + 1 ELSE before]

NoResponse == Response("none", NullPayload)

NoCall ==
    [id |-> 0, img |-> 0, arg |-> NullVal, entry |-> "none", callsBefore |-> 0,
     callsAfter |-> 0, resp |-> NoResponse, out |-> Rejected(NoMsg)]

\* the record of a settled call
Settled(req, resp) ==
    [id |-> req.id, img |-> req.img, arg |-> req.arg, entry |-> req.entry,
     callsBefore |-> req.callsBefore, callsAfter |-> req.callsAfter,
     resp |-> IF req.entry = "call" THEN resp ELSE NoResponse,
     out |-> Settle(req, resp)]

(***************************************************************************)
(* State.                                                                  *)
(***************************************************************************)
VARIABLES
    pc,               \* "boot" before the mount effects, "running", "crashed"
    view,             \* AppView
    allergens,        \* useState<string[]>: a JSON value
    userName,
    newAllergen,
    scanResult,       \* NullPayload is null
    isAnalyzing,
    errorMsg,         \* NoMsg is null
    storedAllergens,  \* localStorage user_allergens
    storedName,       \* localStorage user_name
    pending,          \* analyzeProductImage promises not yet settled
    reads,            \* FileReader reads in flight: the allergens each closure holds
    captures,         \* handleCapture invocations so far
    remoteCalls,      \* generateContent calls issued so far
    lastCall,         \* the analyzeProductImage call settled last
    mounts,           \* Scanner mounts so far; the mounted instance is the last
    stream,           \* Scanner useState stream: 0 is null, else the stream's id
    error,            \* Scanner useState error
    permissionStatus,
    videoSrc,         \* video.srcObject: 0 is null
    videoReady,       \* video.videoWidth and videoHeight are not 0
    gum,              \* getUserMedia requests in flight
    tracks,           \* streams acquired whose tracks are live
    lastOp            \* the call the last step made of removeAllergen or
                      \* captureImage, or the restart it was; else NoOp

appVars == <<view, allergens, userName, newAllergen, scanResult, isAnalyzing, errorMsg>>
storeVars == <<storedAllergens, storedName>>
callVars == <<pending, captures, remoteCalls, lastCall>>
scannerVars == <<mounts, stream, error, permissionStatus, videoSrc, videoReady, gum, tracks>>
vars == <<pc, appVars, storeVars, callVars, reads, scannerVars, lastOp>>

Op(name, arg) == [op |-> name, arg |-> arg]
NoOp == Op("none", <<>>)

Names == {"", "n"}

NoName == [present |-> FALSE, text |-> ""]
NameItem(n) == [present |-> TRUE, text |-> n]
TruthyName(item) == item.present /\ item.text # ""

\* the texts typed into the allergen field when the whole application runs
TypedTexts == {<<>>, <<" ">>, <<" ", "a", " ">>, <<"A">>}

\* what localStorage holds under user_allergens when the application starts
StoredAtStart ==
    {NoItem, Item(<<>>), Item(<<LB, STR(<<"a">>)>>), Item(<<NUL>>), Item(<<NUM>>)}
    \cup {Item(Stringify(ListVal(L))) :
            L \in {<<>>, << <<"a">> >>, << <<"a">>, <<"a">> >>, << <<" ", "a">> >>}}

(***************************************************************************)
(* The Scanner component (mount, unmount; its operations follow below).    *)
(***************************************************************************)
MsgUnsupported == "Seu navegador nao suporta acesso a camera ou o site nao esta seguro (HTTPS)."

GumRequest(m, attempt) == [mount |-> m, attempt |-> attempt]

\* startCamera, lines 16-37: clear the error, then either the support check
\* fails or the first getUserMedia request is issued
StartCamera(m, supported) ==
    /\ error' = IF supported THEN "" ELSE MsgUnsupported
    /\ gum' = IF supported THEN gum \cup {GumRequest(m, 1)} ELSE gum

\* the Scanner is mounted: fresh state, then the mount effect runs startCamera
ScannerMount ==
    /\ mounts < MaxMounts
    /\ mounts' = mounts + 1
    /\ stream' = 0
    /\ permissionStatus' = "prompt"
    /\ videoSrc' = 0
    /\ videoReady' = FALSE
    /\ \E supported \in BOOLEAN : StartCamera(mounts + 1, supported)
    /\ UNCHANGED tracks

\* stopCamera as the closure that holds the value s of the stream state
\* calls it: the tracks that are live afterwards
StopCameraTracks(s) == IF s # 0 THEN tracks \ {s} ELSE tracks

\* the Scanner is unmounted: the cleanup of the mount effect calls the
\* stopCamera of the first render, whose stream is null; the component's
\* state and its video element are gone
ScannerUnmount ==
    /\ tracks' = StopCameraTracks(0)
    /\ stream' = 0
    /\ error' = ""
    /\ permissionStatus' = "prompt"
    /\ videoSrc' = 0
    /\ videoReady' = FALSE
    /\ UNCHANGED <<mounts, gum>>

(***************************************************************************)
(* The application controller.                                             *)
(***************************************************************************)
\* what the render of view v throws on: allergens.length on null (home),
\* allergens.map on what is no array (profile), detectedAllergens.length on
\* a result without the list (result, line 288)
RenderThrows(v, al, an, sr) ==
    \/ v = "HOME" /\ al.t = "null"
    \/ v = "PROFILE" /\ ~IsList(al)
    \/ v = "RESULT" /\ ~an /\ ~sr.isNull /\ sr.riskLevel # "SAFE" /\ ~sr.hasDetected

\* the render after a handler; an error thrown by it takes the tree down
Render ==
    pc' = IF RenderThrows(view', allergens', isAnalyzing', scanResult')
          THEN "crashed" ELSE "running"

\* the save effect of [allergens]: runs after a committed render
SaveAllergens ==
    storedAllergens' = IF pc' = "crashed" THEN storedAllergens
                       ELSE Item(Stringify(allergens'))

\* renderHome line 359: the scan and upload buttons are there
CanScan == ~(IsList(allergens) /\ Len(allergens.v) = 0)

Init ==
    /\ pc = "boot"
    /\ view = "HOME"
    /\ allergens = ListVal(<<>>)
    /\ userName = ""
    /\ newAllergen = <<>>
    /\ scanResult = NullPayload
    /\ isAnalyzing = FALSE
    /\ errorMsg = NoMsg
    /\ storedAllergens \in StoredAtStart
    /\ storedName \in {NoName, NameItem("n")}
    /\ pending = {}
    /\ reads = <<>>
    /\ captures = 0
    /\ remoteCalls = 0
    /\ lastCall = NoCall
    /\ mounts = 0
    /\ stream = 0
    /\ error = ""
    /\ permissionStatus = "prompt"
    /\ videoSrc = 0
    /\ videoReady = FALSE
    /\ gum = {}
    /\ tracks = {}
    /\ lastOp = NoOp

\* LoadAllergens that reads the item after the save effect of the initial
\* state has written it
LoadAllergens_AfterSave(item) ==
    IF Truthy(Item(Stringify(ListVal(<<>>)))) /\ Parse(Stringify(ListVal(<<>>))).ok
    THEN Parse(Stringify(ListVal(<<>>))).val
    ELSE ListVal(<<>>)

\* what the load effect sets the allergens to (lines 21-28)
LoadAllergens(item) ==
    IF Truthy(item) /\ Parse(item.text).ok THEN Parse(item.text).val
    ELSE ListVal(<<>>)

\* what the load effect sets the name to (lines 30-33)
LoadName(item) == IF TruthyName(item) THEN item.text ELSE ""

\* the three mount effects in order: load, save allergens, save name (both
\* of the initial state), then the render of what was loaded and, when it
\* commits, the save effects again
Mount ==
    /\ pc = "boot"
    /\ lastOp' = NoOp
    /\ allergens' = LoadAllergens(storedAllergens)
    /\ userName' = LoadName(storedName)
    /\ UNCHANGED <<view, newAllergen, scanResult, isAnalyzing, errorMsg>>
    /\ Render
    /\ storedAllergens' = IF pc' = "crashed" THEN Item(Stringify(ListVal(<<>>)))
                          ELSE Item(Stringify(allergens'))
    /\ storedName' = IF pc' = "crashed" THEN NameItem("") ELSE NameItem(userName')
    /\ UNCHANGED <<callVars, reads, scannerVars>>

\* the page is loaded again: the state of every component is the initial
\* one, what was in flight is gone with the page and so is the camera, and
\* the mount effects run on what localStorage holds
Restart ==
    /\ pc \in {"running", "crashed"}
    /\ lastOp' = Op("restart", <<>>)
    /\ allergens' = LoadAllergens(storedAllergens)
    /\ userName' = LoadName(storedName)
    /\ view' = "HOME"
    /\ newAllergen' = <<>>
    /\ scanResult' = NullPayload
    /\ isAnalyzing' = FALSE
    /\ errorMsg' = NoMsg
    /\ Render
    /\ storedAllergens' = IF pc' = "crashed" THEN Item(Stringify(ListVal(<<>>)))
                          ELSE Item(Stringify(allergens'))
    /\ storedName' = IF pc' = "crashed" THEN NameItem("") ELSE NameItem(userName')
    /\ pending' = {}
    /\ reads' = <<>>
    /\ gum' = {}
    /\ tracks' = {}
    /\ stream' = 0
    /\ error' = ""
    /\ permissionStatus' = "prompt"
    /\ videoSrc' = 0
    /\ videoReady' = FALSE
    /\ UNCHANGED <<captures, remoteCalls, lastCall, mounts>>

SetUserName(n) ==
    /\ pc = "running" /\ view = "PROFILE"
    /\ lastOp' = NoOp
    /\ userName' = n
    /\ storedName' = NameItem(n)
    /\ UNCHANGED <<pc, view, allergens, newAllergen, scanResult, isAnalyzing, errorMsg,
                   storedAllergens, callVars, reads, scannerVars>>

SetNewAllergen(t) ==
    /\ pc = "running" /\ view = "PROFILE"
    /\ lastOp' = NoOp
    /\ newAllergen' = t
    /\ UNCHANGED <<pc, view, allergens, userName, scanResult, isAnalyzing, errorMsg,
                   storeVars, callVars, reads, scannerVars>>

\* AddAllergenList that appends the input as typed
AddAllergenList_NoTrim(L, s) ==
    IF Trim(s) # <<>> /\ ~Includes(L, Trim(s)) THEN Append(L, s) ELSE L

\* lines 46-51 as a function of the list and the input
AddAllergenList(L, s) ==
    IF Trim(s) # <<>> /\ ~Includes(L, Trim(s)) THEN Append(L, Trim(s)) ELSE L

AddAllergenInput(L, s) ==
    IF Trim(s) # <<>> /\ ~Includes(L, Trim(s)) THEN <<>> ELSE s

AddAllergen ==
    /\ pc = "running" /\ view = "PROFILE"
    /\ lastOp' = NoOp
    /\ allergens' = ListVal(AddAllergenList(allergens.v, newAllergen))
    /\ newAllergen' = AddAllergenInput(allergens.v, newAllergen)
    /\ UNCHANGED <<view, userName, scanResult, isAnalyzing, errorMsg>>
    /\ Render
    /\ SaveAllergens
    /\ UNCHANGED <<storedName, callVars, reads, scannerVars>>

\* RemoveAllergenList that drops the first entry whatever it is
RemoveAllergenList_DropsHead(L, item) ==
    IF Includes(L, item) THEN Tail(L) ELSE L

\* lines 53-55
RemoveAllergenList(L, item) == FilterOut(L, item)

RemoveAllergen(item) ==
    /\ pc = "running" /\ view = "PROFILE"
    /\ lastOp' = Op("removeAllergen", item)
    /\ allergens' = ListVal(RemoveAllergenList(allergens.v, item))
    /\ UNCHANGED <<view, userName, newAllergen, scanResult, isAnalyzing, errorMsg>>
    /\ Render
    /\ SaveAllergens
    /\ UNCHANGED <<storedName, callVars, reads, scannerVars>>

\* SaveProfileList that appends an input the list already holds
SaveProfileList_NoDedup(L, s) ==
    IF Trim(s) # <<>> THEN Append(L, Trim(s)) ELSE L

\* lines 57-65 as a function of the list and the input
SaveProfileList(L, s) ==
    IF Trim(s) # <<>> /\ ~Includes(L, Trim(s)) THEN Append(L, Trim(s)) ELSE L

SaveProfileInput(s) == IF Trim(s) # <<>> THEN <<>> ELSE s

HandleSaveProfile ==
    /\ pc = "running" /\ view = "PROFILE"
    /\ lastOp' = NoOp
    /\ allergens' = ListVal(SaveProfileList(allergens.v, newAllergen))
    /\ newAllergen' = SaveProfileInput(newAllergen)
    /\ view' = "HOME"
    /\ UNCHANGED <<userName, scanResult, isAnalyzing, errorMsg>>
    /\ Render
    /\ SaveAllergens
    /\ UNCHANGED <<storedName, callVars, reads, scannerVars>>

\* lines 329, 336, 367
GoProfile ==
    /\ pc = "running" /\ view = "HOME"
    /\ lastOp' = NoOp
    /\ view' = "PROFILE"
    /\ UNCHANGED <<allergens, userName, newAllergen, scanResult, isAnalyzing, errorMsg>>
    /\ Render
    /\ UNCHANGED <<storeVars, callVars, reads, scannerVars>>

\* line 376
GoScanner ==
    /\ pc = "running" /\ view = "HOME" /\ CanScan
    /\ lastOp' = NoOp
    /\ view' = "SCANNER"
    /\ ScannerMount
    /\ UNCHANGED <<pc, allergens, userName, newAllergen, scanResult, isAnalyzing, errorMsg,
                   storeVars, callVars, reads>>

\* line 261: the retry button of the error card
RetryScan ==
    /\ pc = "running" /\ view = "RESULT" /\ ~isAnalyzing /\ errorMsg # NoMsg
    /\ lastOp' = NoOp
    /\ view' = "SCANNER"
    /\ ScannerMount
    /\ UNCHANGED <<pc, allergens, userName, newAllergen, scanResult, isAnalyzing, errorMsg,
                   storeVars, callVars, reads>>

\* line 237 (the header button, there in every state of the view) and line 302
ResultBack ==
    /\ pc = "running" /\ view = "RESULT"
    /\ lastOp' = NoOp
    /\ view' = "HOME"
    /\ UNCHANGED <<allergens, userName, newAllergen, scanResult, isAnalyzing, errorMsg>>
    /\ Render
    /\ UNCHANGED <<storeVars, callVars, reads, scannerVars>>

RemoveAt(q, i) == SubSeq(q, 1, i - 1) \o SubSeq(q, i + 1, Len(q))

\* analyzeProductImage(img, arg) is invoked and runs up to the remote call
\* or to its throw
CallAnalyze(img, arg) ==
    /\ captures < MaxCaptures
    /\ pending' = pending \cup {Request(captures + 1, img, arg, remoteCalls)}
    /\ remoteCalls' = Request(captures + 1, img, arg, remoteCalls).callsAfter
    /\ captures' = captures + 1
    /\ UNCHANGED lastCall

\* HandleCapture that leaves the previous result in place
HandleCapture_KeepsResult(arg) ==
    /\ isAnalyzing' = TRUE
    /\ errorMsg' = NoMsg
    /\ view' = "RESULT"
    /\ CallAnalyze(captures + 1, arg)
    /\ UNCHANGED <<scanResult, allergens, userName, newAllergen, storeVars>>
    /\ Render

\* handleCapture up to its await (lines 70-77): the four state updates, then
\* analyzeProductImage with the allergens of the closure
HandleCapture(arg) ==
    /\ isAnalyzing' = TRUE
    /\ errorMsg' = NoMsg
    /\ scanResult' = NullPayload
    /\ view' = "RESULT"
    /\ CallAnalyze(captures + 1, arg)
    /\ UNCHANGED <<allergens, userName, newAllergen, storeVars>>
    /\ Render

\* handleCapture after its await (lines 78-83): the promise settles, then
\* setScanResult or setErrorMsg, then setIsAnalyzing(false)
ResolveCapture(req, resp) ==
    /\ pc = "running"
    /\ lastOp' = NoOp
    /\ req \in pending
    /\ pending' = pending \ {req}
    /\ lastCall' = Settled(req, resp)
    /\ scanResult' = IF Settle(req, resp).settled = "fulfilled"
                     THEN Settle(req, resp).value ELSE scanResult
    /\ errorMsg' = IF Settle(req, resp).settled = "rejected"
                   THEN Settle(req, resp).message ELSE errorMsg
    /\ isAnalyzing' = FALSE
    /\ UNCHANGED <<view, allergens, userName, newAllergen>>
    /\ Render
    /\ UNCHANGED <<storeVars, captures, remoteCalls, reads, scannerVars>>

\* handleFileUpload (lines 86-102) with a file chosen: the read starts; its
\* onload closure holds the handleCapture of this render
HandleFileUpload ==
    /\ pc = "running" /\ view = "HOME" /\ CanScan
    /\ lastOp' = NoOp
    /\ Len(reads) < MaxReads
    /\ reads' = Append(reads, allergens)
    /\ UNCHANGED <<pc, appVars, storeVars, callVars, scannerVars>>

\* reader.onload (lines 90-95), whatever the view is by then
FileLoaded(i) ==
    /\ pc = "running"
    /\ lastOp' = NoOp
    /\ i \in 1..Len(reads)
    /\ HandleCapture(reads[i])
    /\ reads' = RemoveAt(reads, i)
    /\ IF view = "SCANNER" THEN ScannerUnmount ELSE UNCHANGED scannerVars

(***************************************************************************)
(* The Scanner component: its operations.                                  *)
(***************************************************************************)
MsgDenied == "Acesso a camera foi negado."
MsgNotFound == "Nenhuma camera encontrada neste dispositivo."
MsgCamera == "Nao foi possivel acessar a camera."

GumOutcomes == {"ok", "NotAllowedError", "NotFoundError", "Error"}

\* handleError, lines 67-87
ErrorMessage(name) ==
    IF name = "NotAllowedError" THEN MsgDenied
    ELSE IF name = "NotFoundError" THEN MsgNotFound
    ELSE MsgCamera

ErrorStatus(name) == IF name = "NotAllowedError" THEN "denied" ELSE "prompt"

\* the instance that issued the request is the one mounted now
Mounted(m) == view = "SCANNER" /\ m = mounts

\* GumSettle without the fallback request, as the startCamera of the
\* Scanner.tsx beside App.tsx has it: the first failure is the error
GumSettle_NoFallback(req, outcome) ==
    /\ lastOp' = NoOp
    /\ pc = "running"
    /\ req \in gum
    /\ \/ /\ outcome = "ok"
          /\ gum' = gum \ {req}
          /\ tracks' = tracks \cup {req.mount}
          /\ stream' = IF Mounted(req.mount) THEN req.mount ELSE stream
          /\ permissionStatus' = IF Mounted(req.mount) THEN "granted" ELSE permissionStatus
          /\ videoSrc' = IF Mounted(req.mount) /\ error = "" THEN req.mount ELSE videoSrc
          /\ UNCHANGED <<error, videoReady>>
       \/ /\ outcome # "ok"
          /\ gum' = gum \ {req}
          /\ error' = IF Mounted(req.mount) THEN ErrorMessage(outcome) ELSE error
          /\ permissionStatus' = IF Mounted(req.mount) THEN ErrorStatus(outcome)
                                 ELSE permissionStatus
          /\ videoSrc' = IF Mounted(req.mount) THEN 0 ELSE videoSrc
          /\ videoReady' = IF Mounted(req.mount) THEN FALSE ELSE videoReady
          /\ UNCHANGED <<tracks, stream>>
    /\ UNCHANGED <<pc, appVars, storeVars, callVars, reads, mounts>>

\* a getUserMedia promise settles (lines 37-53): handleStreamSuccess, the
\* fallback request, or handleError; the state updates of an instance that
\* is no longer mounted do nothing and its videoRef is null
GumSettle(req, outcome) ==
    /\ pc = "running"
    /\ lastOp' = NoOp
    /\ req \in gum
    /\ \/ /\ outcome = "ok"
          /\ gum' = gum \ {req}
          /\ tracks' = tracks \cup {req.mount}
          /\ stream' = IF Mounted(req.mount) THEN req.mount ELSE stream
          /\ permissionStatus' = IF Mounted(req.mount) THEN "granted" ELSE permissionStatus
          /\ videoSrc' = IF Mounted(req.mount) /\ error = "" THEN req.mount ELSE videoSrc
          /\ UNCHANGED <<error, videoReady>>
       \/ /\ outcome = "Error" /\ req.attempt = 1
          /\ gum' = (gum \ {req}) \cup {GumRequest(req.mount, 2)}
          /\ UNCHANGED <<tracks, stream, permissionStatus, videoSrc, error, videoReady>>
       \/ /\ outcome # "ok" /\ req.attempt = 2
          /\ gum' = gum \ {req}
          /\ error' = IF Mounted(req.mount) THEN ErrorMessage(outcome) ELSE error
          /\ permissionStatus' = IF Mounted(req.mount) THEN ErrorStatus(outcome)
                                 ELSE permissionStatus
          /\ videoSrc' = IF Mounted(req.mount) THEN 0 ELSE videoSrc
          /\ videoReady' = IF Mounted(req.mount) THEN FALSE ELSE videoReady
          /\ UNCHANGED <<tracks, stream>>
    /\ UNCHANGED <<pc, appVars, storeVars, callVars, reads, mounts>>

\* the video element has loaded the metadata of a live stream
VideoReady ==
    /\ pc = "running" /\ view = "SCANNER"
    /\ lastOp' = NoOp
    /\ videoSrc # 0 /\ videoSrc \in tracks /\ ~videoReady
    /\ videoReady' = TRUE
    /\ UNCHANGED <<pc, appVars, storeVars, callVars, reads,
                   mounts, stream, error, permissionStatus, videoSrc, gum, tracks>>

\* the retry button of the error view (line 156)
RetryCamera ==
    /\ pc = "running" /\ view = "SCANNER" /\ error # ""
    /\ lastOp' = NoOp
    /\ \E supported \in BOOLEAN : StartCamera(mounts, supported)
    /\ UNCHANGED <<pc, appVars, storeVars, callVars, reads,
                   mounts, stream, permissionStatus, videoSrc, videoReady, tracks>>

\* ScannerCancel that leaves for the profile view
ScannerCancel_ToProfile ==
    /\ lastOp' = NoOp
    /\ pc = "running" /\ view = "SCANNER"
    /\ view' = "PROFILE"
    /\ ScannerUnmount
    /\ UNCHANGED <<allergens, userName, newAllergen, scanResult, isAnalyzing, errorMsg>>
    /\ Render
    /\ UNCHANGED <<storeVars, callVars, reads>>

\* onCancel (line 423): back to HOME, the Scanner is unmounted
ScannerCancel ==
    /\ pc = "running" /\ view = "SCANNER"
    /\ lastOp' = NoOp
    /\ view' = "HOME"
    /\ ScannerUnmount
    /\ UNCHANGED <<allergens, userName, newAllergen, scanResult, isAnalyzing, errorMsg>>
    /\ Render
    /\ UNCHANGED <<storeVars, callVars, reads>>

\* CaptureImage without the check of line 114, as the captureImage of the
\* Scanner.tsx beside App.tsx has it: the frame is drawn whatever its size
CaptureImage_NoFrameCheck ==
    /\ pc = "running" /\ view = "SCANNER" /\ error = ""
    /\ lastOp' = Op("captureImage", <<>>)
    /\ tracks' = StopCameraTracks(stream)
    /\ stream' = 0
    /\ error' = ""
    /\ permissionStatus' = "prompt"
    /\ videoSrc' = 0
    /\ videoReady' = FALSE
    /\ UNCHANGED <<mounts, gum>>
    /\ HandleCapture(allergens)
    /\ UNCHANGED reads

\* captureImage (lines 109-131), the button of the camera view: a video
\* without a frame makes it return at line 114; with a frame, stopCamera of
\* this render, onCapture, and the unmount that the view change causes
CaptureImage ==
    /\ pc = "running" /\ view = "SCANNER" /\ error = ""
    /\ lastOp' = Op("captureImage", <<>>)
    /\ IF videoReady
       THEN /\ tracks' = StopCameraTracks(stream)
            /\ stream' = 0
            /\ error' = ""
            /\ permissionStatus' = "prompt"
            /\ videoSrc' = 0
            /\ videoReady' = FALSE
            /\ UNCHANGED <<mounts, gum>>
            /\ HandleCapture(allergens)
            /\ UNCHANGED reads
       ELSE UNCHANGED <<pc, appVars, storeVars, callVars, reads, scannerVars>>

(***************************************************************************)
(* analyzeProductImage and addAllergen on their own, on inputs drawn from  *)
(* bounded sets.                                                           *)
(***************************************************************************)
Images == {1, 2}

AnalyzeInputs == {ListVal(<<>>), ListVal(<< <<"a">> >>), ListVal(<< <<"a">>, <<"A">> >>)}

InitPure(p) ==
    /\ pc = p
    /\ view = "HOME"
    /\ allergens = ListVal(<<>>)
    /\ userName = ""
    /\ newAllergen = <<>>
    /\ scanResult = NullPayload
    /\ isAnalyzing = FALSE
    /\ errorMsg = NoMsg
    /\ storedAllergens = NoItem
    /\ storedName = NoName
    /\ pending = {}
    /\ reads = <<>>
    /\ captures = 0
    /\ remoteCalls = 0
    /\ lastCall = NoCall
    /\ mounts = 0
    /\ stream = 0
    /\ error = ""
    /\ permissionStatus = "prompt"
    /\ videoSrc = 0
    /\ videoReady = FALSE
    /\ gum = {}
    /\ tracks = {}
    /\ lastOp = NoOp

InitAnalyze == InitPure("analyze")

AnalyzeCall(img, arg) ==
    /\ pc = "analyze"
    /\ lastOp' = NoOp
    /\ CallAnalyze(img, arg)
    /\ UNCHANGED <<pc, appVars, storeVars, reads, scannerVars>>

AnalyzeSettled(req, resp) ==
    /\ pc = "analyze"
    /\ lastOp' = NoOp
    /\ req \in pending
    /\ pending' = pending \ {req}
    /\ lastCall' = Settled(req, resp)
    /\ UNCHANGED <<pc, appVars, storeVars, captures, remoteCalls, reads, scannerVars>>

NextAnalyze ==
    \/ \E img \in Images, arg \in AnalyzeInputs : AnalyzeCall(img, arg)
    \/ \E req \in pending, resp \in Responses : AnalyzeSettled(req, resp)

SpecAnalyze == InitAnalyze /\ [][NextAnalyze]_vars

\* the list and the input are drawn; addAllergen is then applied in the
\* profile view
InitAdd ==
    /\ pc = "running"
    /\ view = "PROFILE"
    /\ allergens \in {ListVal(L) : L \in ListsUpTo(TextsUpTo(MaxItemLen), MaxList)}
    /\ userName = ""
    /\ newAllergen \in TextsUpTo(MaxLen)
    /\ scanResult = NullPayload
    /\ isAnalyzing = FALSE
    /\ errorMsg = NoMsg
    /\ storedAllergens = Item(Stringify(allergens))
    /\ storedName = NameItem("")
    /\ pending = {}
    /\ reads = <<>>
    /\ captures = 0
    /\ remoteCalls = 0
    /\ lastCall = NoCall
    /\ mounts = 0
    /\ stream = 0
    /\ error = ""
    /\ permissionStatus = "prompt"
    /\ videoSrc = 0
    /\ videoReady = FALSE
    /\ gum = {}
    /\ tracks = {}
    /\ lastOp = NoOp

NextAdd == AddAllergen

SpecAdd == InitAdd /\ [][NextAdd]_vars

\* the list and the input are drawn; handleSaveProfile is then applied in
\* the profile view
NextSave == HandleSaveProfile

SpecSave == InitAdd /\ [][NextSave]_vars

\* the list is drawn; removeAllergen is then applied to any text, an entry
\* of the list or not
NextRemove == \E item \in TextsUpTo(MaxItemLen) : RemoveAllergen(item)

InitRemove == InitAdd /\ newAllergen \in {<<>>, <<"a">>}

SpecRemove == InitRemove /\ [][NextRemove]_vars

\* the profile view and the way into it
NextProfile ==
    \/ Mount
    \/ \E n \in Names : SetUserName(n)
    \/ \E t \in TypedTexts : SetNewAllergen(t)
    \/ AddAllergen
    \/ \E i \in 1..Len(allergens.v) : RemoveAllergen(allergens.v[i])
    \/ HandleSaveProfile
    \/ GoProfile
    \/ Restart

\* scanning, uploading and analysing
NextScan ==
    \/ Mount
    \/ GoScanner
    \/ RetryScan
    \/ ResultBack
    \/ HandleFileUpload
    \/ \E i \in 1..Len(reads) : FileLoaded(i)
    \/ \E req \in pending, resp \in AppResponses : ResolveCapture(req, resp)
    \/ \E req \in gum, outcome \in GumOutcomes : GumSettle(req, outcome)
    \/ VideoReady
    \/ RetryCamera
    \/ ScannerCancel
    \/ CaptureImage

Next == NextProfile \/ NextScan

\* the whole application
Spec == Init /\ [][Next]_vars

\* the application with the profile left as it was loaded: nothing stored,
\* a stored list, and stored values that are no list
InitScan ==
    /\ Init
    /\ storedAllergens \in {NoItem, Item(Stringify(ListVal(<< <<"a">> >>))),
                            Item(<<NUL>>), Item(<<NUM>>)}
    /\ storedName = NoName

SpecScan == InitScan /\ [][NextScan]_vars

\* the application with no scan started
SpecProfile == Init /\ [][NextProfile]_vars

(***************************************************************************)
(* Properties.                                                             *)
(***************************************************************************)
EmptyList == ListVal(<<>>)

\* C1: analyzeProductImage called with an empty allergen list issues no
\* remote call (the invocation leaves the remote-call count as it was) and
\* its promise is rejected with the validation error.
C1_EmptyListRejectedWithoutCall ==
    [][/\ \A r \in pending' \ pending :
            r.arg = EmptyList => remoteCalls' = remoteCalls
       /\ (lastCall' # lastCall /\ lastCall'.arg = EmptyList) =>
            /\ lastCall'.out = Rejected(MsgNoAllergens)
            /\ lastCall'.callsAfter = lastCall'.callsBefore]_vars

\* an empty-list call has settled after a remote call of another invocation
C1_Witness ==
    /\ lastCall.id # 0
    /\ lastCall.arg = EmptyList
    /\ lastCall.out.settled = "rejected"
    /\ remoteCalls > 0

\* C2: analyzeProductImage returns a result only for a response whose payload
\* parses and has all three fields (riskLevel in the enum, detectedAllergens,
\* reasoning); every other response ends in the remote error.
C2_ResultOnlyFromCompletePayload ==
    lastCall.entry = "call" =>
        IF lastCall.resp.kind = "json" /\ IsAnalysisResult(lastCall.resp.val)
        THEN lastCall.out = Fulfilled(lastCall.resp.val)
        ELSE lastCall.out = Rejected(MsgAnalysis)

\* C3: right after an analysis started by handleCapture resolves as a
\* failure, errorMsg is set and scanResult is null.
C3_FailureLeavesNoResult ==
    [][(lastCall' # lastCall /\ lastCall'.out.settled = "rejected" /\ pc' = "running") =>
            (errorMsg' # NoMsg /\ scanResult' = NullPayload)]_vars

\* C4: at most one remote analysis request is in flight.
C4_AtMostOneRequestInFlight ==
    Cardinality({r \in pending : r.entry = "call"}) <= 1

\* C5: whenever the Scanner is not mounted, no acquired camera track is live.
C5_NoLiveTrackOutsideScanner ==
    view # "SCANNER" => tracks = {}

\* C6: every handleCapture takes isAnalyzing from false to true with the view
\* RESULT as its remote call is issued, and the resolution of its request
\* takes isAnalyzing from true to false.
C6_AnalyzingFalseTrueFalse ==
    [][/\ captures' = captures + 1 =>
            (~isAnalyzing /\ isAnalyzing' /\ view' = "RESULT")
       /\ lastCall' # lastCall => (isAnalyzing /\ ~isAnalyzing')]_vars

\* C7: isAnalyzing and a set scanResult never hold together.
C7_NotAnalyzingWithResult ==
    ~(isAnalyzing /\ ~scanResult.isNull)

\* a new analysis is loading after an earlier one had set a result
C7_Witness ==
    /\ isAnalyzing
    /\ scanResult.isNull
    /\ lastCall.out.settled = "fulfilled"
    /\ ~lastCall.out.value.isNull

Spaces(n) == [i \in 1..n |-> " "]

\* s[i..j] is s without the white space around it
IsTrimOf(s, i, j) ==
    /\ i > j \/ (s[i] # " " /\ s[j] # " ")
    /\ s = Spaces(i - 1) \o SubSeq(s, i, j) \o Spaces(Len(s) - j)

\* C8: addAllergen leaves the list unchanged when the trimmed input is empty
\* or already an entry of the list, and otherwise appends the trimmed input
\* at the end; adding the same text again changes nothing more.
C8_AddAllergenTrimsAndDedups ==
    [][\E i \in 1..(Len(newAllergen) + 1), j \in 0..Len(newAllergen) :
        /\ IsTrimOf(newAllergen, i, j)
        /\ IF i > j \/ SubSeq(newAllergen, i, j) \in Range(allergens.v)
           THEN allergens' = allergens
           ELSE /\ allergens' = ListVal(Append(allergens.v, SubSeq(newAllergen, i, j)))
                /\ AddAllergenList(allergens'.v, newAllergen) = allergens'.v]_vars

\* a padded input was appended, trimmed, to a list of MaxList entries
C8_Witness ==
    /\ Len(allergens.v) = MaxList + 1
    /\ allergens.v[MaxList + 1] = <<"A">>
    /\ ~Includes(SubSeq(allergens.v, 1, MaxList), <<"A">>)
    /\ newAllergen = <<>>

\* C9: the allergen list holds only distinct, non-empty, trimmed strings.
C9_DistinctTrimmedEntries ==
    IsList(allergens) =>
        /\ \A i \in 1..Len(allergens.v) :
              allergens.v[i] # <<>> /\ Trim(allergens.v[i]) = allergens.v[i]
        /\ \A i, j \in 1..Len(allergens.v) :
              i # j => allergens.v[i] # allergens.v[j]

\* C10: whatever is stored under the allergen key at startup, loading does
\* not fail fatally and leaves a list: the stored list, or the empty list.
C10_LoadNeverFatal ==
    [][pc = "boot" =>
        /\ pc' = "running"
        /\ IsList(allergens')
        /\ \/ allergens' = EmptyList
           \/ Truthy(storedAllergens) /\ storedAllergens.text = Stringify(allergens')]_vars

\* C11: the profile is persisted on every mutation and survives a restart.
\* After every step taken in the profile view, and after the mount, what
\* localStorage holds is the list and the name in memory; and a restart of
\* the running application (the initial state, then its mount effects on
\* what is stored) ends with the list and the name it had before.
C11_ProfilePersistedAndRestored ==
    [][/\ (pc' = "running" /\ (view = "PROFILE" \/ pc = "boot"))
            => /\ storedAllergens' = Item(Stringify(allergens'))
               /\ storedName' = NameItem(userName')
       /\ (pc = "running" /\ lastOp' = Op("restart", <<>>))
            => /\ pc' = "running"
               /\ allergens' = allergens
               /\ userName' = userName
               /\ storedAllergens' = storedAllergens]_vars

\* a restart after a list of two entries was built and a name was typed
C11_Witness ==
    /\ lastOp = Op("restart", <<>>)
    /\ pc = "running"
    /\ allergens = ListVal(<< <<"a">>, <<"A">> >>)
    /\ userName = "n"

\* the application started on a profile as the application itself stores
\* it: nothing stored yet, or a list it saved
InitApp ==
    /\ Init
    /\ storedAllergens \in {NoItem, Item(Stringify(ListVal(<< <<"a">> >>)))}
    /\ storedName = NoName

\* the answers drawn when every view is walked: a failure and a result
NavResponses ==
    {Response("throws", NullPayload), Response("json", ObjPayload("SAFE", TRUE, TRUE))}

\* every view: the profile edited by typing an entry, adding, removing and
\* saving, beside scanning, uploading and analysing
NextApp ==
    \/ Mount
    \/ GoProfile
    \/ \E t \in {<<"a">>} : SetNewAllergen(t)
    \/ AddAllergen
    \/ \E i \in 1..Len(allergens.v) : RemoveAllergen(allergens.v[i])
    \/ HandleSaveProfile
    \/ GoScanner
    \/ RetryScan
    \/ ResultBack
    \/ HandleFileUpload
    \/ \E i \in 1..Len(reads) : FileLoaded(i)
    \/ \E req \in pending, resp \in NavResponses : ResolveCapture(req, resp)
    \/ \E req \in gum, outcome \in {"ok", "Error"} : GumSettle(req, outcome)
    \/ VideoReady
    \/ RetryCamera
    \/ ScannerCancel
    \/ CaptureImage

SpecApp == InitApp /\ [][NextApp]_vars

\* the view transitions of the router as the claim C12 lists them
ListedTransitions ==
    {<<"HOME", "SCANNER">>, <<"HOME", "PROFILE">>, <<"SCANNER", "RESULT">>,
     <<"SCANNER", "HOME">>, <<"RESULT", "HOME">>, <<"RESULT", "SCANNER">>,
     <<"PROFILE", "HOME">>}

\* C12 as stated: the only view transitions are HOME->SCANNER, HOME->PROFILE,
\* SCANNER->RESULT, SCANNER->HOME, RESULT->HOME, RESULT->SCANNER and
\* PROFILE->HOME, so that every entry into RESULT leaves from SCANNER.
C12_OnlyListedTransitions ==
    [][view' # view => <<view, view'>> \in ListedTransitions]_vars

\* C12, amended: the only view transitions are the seven listed and, when a
\* file read completes, HOME->RESULT and PROFILE->RESULT; every
\* handleCapture ends in RESULT; an entry into RESULT from a view other than
\* SCANNER is made by a completed file read, and an entry by captureImage
\* leaves from SCANNER.
C12_TransitionsWithUpload ==
    [][/\ view' # view =>
            <<view, view'>> \in ListedTransitions
                \cup {<<"HOME", "RESULT">>, <<"PROFILE", "RESULT">>}
       /\ captures' = captures + 1 => view' = "RESULT"
       /\ (view' = "RESULT" /\ view # "RESULT") => captures' = captures + 1
       /\ (view' = "RESULT" /\ view \notin {"RESULT", "SCANNER"})
            => Len(reads') = Len(reads) - 1
       /\ (captures' = captures + 1 /\ lastOp' = Op("captureImage", <<>>))
            => view = "SCANNER"]_vars

\* the result view entered by an upload with no Scanner ever mounted
C12_Witness ==
    /\ view = "RESULT"
    /\ isAnalyzing
    /\ mounts = 0
    /\ captures = 1

\* C13 as stated: handleSaveProfile always ends in the view HOME with the
\* pending input text cleared; a non-empty trimmed input is in the list
\* afterwards, appended once when it was absent, and the previous entries
\* keep their order.
C13_SaveClearsInput ==
    [][(view = "PROFILE" /\ view' = "HOME") =>
        /\ newAllergen' = <<>>
        /\ \E i \in 1..(Len(newAllergen) + 1), j \in 0..Len(newAllergen) :
            /\ IsTrimOf(newAllergen, i, j)
            /\ IF i > j \/ SubSeq(newAllergen, i, j) \in Range(allergens.v)
               THEN allergens' = allergens
               ELSE allergens' = ListVal(Append(allergens.v, SubSeq(newAllergen, i, j)))]_vars

\* C13, amended: handleSaveProfile always ends in the view HOME; the pending
\* input text is cleared when its trimmed text is non-empty and is left as
\* typed when it is empty or white space only; a non-empty trimmed input is
\* in the list afterwards, appended at the end exactly once when it was
\* absent and not appended when it was present, and the previous entries
\* keep their order.
C13_SaveCommitsPendingInput ==
    [][view = "PROFILE" =>
        /\ view' = "HOME"
        /\ \E i \in 1..(Len(newAllergen) + 1), j \in 0..Len(newAllergen) :
            /\ IsTrimOf(newAllergen, i, j)
            /\ newAllergen' = IF i > j THEN newAllergen ELSE <<>>
            /\ IF i > j \/ SubSeq(newAllergen, i, j) \in Range(allergens.v)
               THEN allergens' = allergens
               ELSE allergens' = ListVal(Append(allergens.v, SubSeq(newAllergen, i, j)))
            /\ i <= j => SubSeq(newAllergen, i, j) \in Range(allergens'.v)
        /\ SubSeq(allergens'.v, 1, Len(allergens.v)) = allergens.v]_vars

\* saved with only white space typed: the text is still in the field
C13_Witness ==
    /\ view = "HOME"
    /\ newAllergen = <<" ", " ">>
    /\ Len(allergens.v) = MaxList

\* R is L without its entries equal to x, the other entries in their order
IsWithout(R, L, x) ==
    \E f \in [1..Len(R) -> 1..Len(L)] :
        /\ \A k \in 1..Len(R) : R[k] = L[f[k]]
        /\ \A k \in 1..(Len(R) - 1) : f[k] < f[k + 1]
        /\ {f[k] : k \in 1..Len(R)} = {i \in 1..Len(L) : L[i] # x}

\* C14: removeAllergen(x) leaves a list that does not hold x unchanged; on a
\* list that holds x it removes the entry x (one entry when x occurs once)
\* and keeps every other entry, in order.  It changes nothing but the list
\* and what is stored of it.
C14_RemoveOnlyThatEntry ==
    [][\A x \in TextsUpTo(MaxItemLen) : lastOp' = Op("removeAllergen", x) =>
        /\ x \notin Range(allergens.v) => allergens' = allergens
        /\ x \notin Range(allergens'.v)
        /\ IsWithout(allergens'.v, allergens.v, x)
        /\ Cardinality({i \in 1..Len(allergens.v) : allergens.v[i] = x}) = 1
              => Len(allergens'.v) = Len(allergens.v) - 1
        /\ storedAllergens' = Item(Stringify(allergens'))
        /\ UNCHANGED <<pc, view, userName, newAllergen, scanResult, isAnalyzing,
                       errorMsg, storedName, callVars, reads, scannerVars>>]_vars

\* removeAllergen was applied and the list is left with one other entry
C14_Witness ==
    /\ lastOp = Op("removeAllergen", <<"a">>)
    /\ allergens.v = << <<"A">> >>
    /\ storedAllergens = Item(Stringify(allergens))

\* C15: stopCamera is idempotent: after captureImage has called it and the
\* unmount teardown has called it again, no acquired track is live and the
\* video element has no stream attached.
C15_NoLiveTrackAfterCapture ==
    [][(lastOp' = Op("captureImage", <<>>) /\ captures' = captures + 1)
        => (tracks' = {} /\ videoSrc' = 0)]_vars

\* C16: captureImage on a video whose frame has no width or height does
\* nothing at all: onCapture is not called, the camera is not stopped, and
\* the state of the Scanner and of the controller is unchanged; an image is
\* delivered only when the Scanner is streaming and the frame has a size.
C16_ZeroFrameCaptureIsNoOp ==
    [][lastOp' = Op("captureImage", <<>>) =>
        IF videoReady
        THEN /\ stream # 0 /\ videoSrc = stream /\ stream \in tracks /\ error = ""
             /\ captures' = captures + 1
             /\ view' = "RESULT"
        ELSE UNCHANGED <<pc, appVars, storeVars, callVars, reads, scannerVars>>]_vars

\* the button was pressed on a granted stream that has no frame yet
C16_Witness ==
    /\ lastOp = Op("captureImage", <<>>)
    /\ view = "SCANNER"
    /\ stream # 0
    /\ ~videoReady
    /\ captures = 0

\* C17 as stated: a run of startCamera makes at most two camera-access
\* requests, the fallback only after the first failed, and the Scanner shows
\* an error message only after both requests have failed.
C17_ErrorOnlyAfterBothFailed ==
    [][/\ \A r \in gum' \ gum :
            \/ r.attempt = 1
            \/ r.attempt = 2 /\ GumRequest(r.mount, 1) \in gum \ gum'
       /\ (error' # "" /\ error' # error)
            => \E r \in gum \ gum' : r.attempt = 2 /\ r \notin gum']_vars

\* C17, amended: a run of startCamera makes at most two camera-access
\* requests: none when the browser has no getUserMedia, else the preferred
\* one and, only after that one failed, one fallback; a Scanner has at most
\* one request in flight.  An error message is shown either at once by the
\* support check, no request made, or after both requests of the run have
\* failed.  When either request succeeds while its Scanner is mounted, the
\* Scanner is streaming with no error set.
C17_AtMostTwoRequestsThenError ==
    [][/\ \A r \in gum' \ gum :
            \/ /\ r.attempt = 1
               /\ r.mount = mounts'
               /\ view' = "SCANNER" /\ error' = ""
               /\ mounts' = mounts + 1 \/ (view = "SCANNER" /\ error # "")
            \/ r.attempt = 2 /\ GumRequest(r.mount, 1) \in gum \ gum'
       /\ Cardinality(gum' \ gum) <= 1
       /\ \A r1, r2 \in gum' : r1.mount = r2.mount => r1 = r2
       /\ (error' # "" /\ error' # error)
            => \/ \E r \in gum \ gum' :
                    r.attempt = 2 /\ gum' = gum \ {r} /\ Mounted(r.mount)
               \/ error' = MsgUnsupported /\ gum' = gum
       /\ \A r \in gum \ gum' :
            (r.mount \in tracks' \ tracks /\ Mounted(r.mount))
                => /\ stream' = r.mount /\ videoSrc' = r.mount
                   /\ permissionStatus' = "granted"
                   /\ error' = ""]_vars

\* the fallback request failed too and the Scanner shows the error
C17_Witness ==
    /\ view = "SCANNER"
    /\ error \in {MsgDenied, MsgNotFound, MsgCamera}
    /\ gum = {}
    /\ stream = 0

\* C18: isAnalyzing is true exactly when an analysis request started by
\* handleCapture has not yet been resolved.
C18_AnalyzingIffRequestOutstanding ==
    pc = "running" => (isAnalyzing <=> pending # {})

\* C19: an outcome shown by the result view (not analysing, and the result or
\* the error that the request settled last has set) is the response to the
\* image captured last, never the late response to an earlier capture.
C19_ShownOutcomeIsOfLastCapture ==
    (/\ pc = "running" /\ view = "RESULT" /\ ~isAnalyzing
     /\ lastCall.id # 0
     /\ \/ lastCall.out.settled = "rejected" /\ errorMsg = lastCall.out.message
        \/ /\ lastCall.out.settled = "fulfilled"
           /\ ~scanResult.isNull /\ scanResult = lastCall.out.value)
        => lastCall.id = captures

\* C20: started on a profile that is empty or well formed, the view is
\* SCANNER only with a non-empty allergen list, and no handleCapture passes
\* an empty list to analyzeProductImage: the validation error of the service
\* is never reached through the interface.
C20_NoScanWithEmptyList ==
    /\ (pc = "running" /\ view = "SCANNER")
            => (IsList(allergens) /\ Len(allergens.v) > 0)
    /\ \A r \in pending : r.entry # "validation"
    /\ lastCall.entry # "validation"
    /\ errorMsg # MsgNoAllergens

=============================================================================
